---- MODULE Spec2Model ----
(***************************************************************************)
(* A model of growl.py, a static-site builder: front-matter parsing,       *)
(* context copying and merging, layout-chain rendering, post construction  *)
(* (filename date/slug, category normalisation), category aggregation and  *)
(* the write phase (posts, pages, verbatim copies).                        *)
(*                                                                         *)
(* Strings that the code takes apart (file names, category strings) are    *)
(* sequences of one-character strings.  Dictionaries are functions whose   *)
(* DOMAIN is the key set.  Python objects that can be aliased (AttrDict    *)
(* contexts) live in a heap, a sequence indexed by address.                *)
(***************************************************************************)
EXTENDS Integers, Sequences, FiniteSets, TLC

\* ------------------------------------------------------------------ bounds
NumLayouts == 3      \* layout names are 1..NumLayouts
MaxParts == 5        \* dash-separated pieces of a generated post stem
MaxCatLen == 3       \* length of a generated `categories` string
MaxCategoryLen == 1  \* length of a generated `category` string
MaxPosts == 2        \* post files in the site-level scenarios
MaxEntries == 2      \* files and leaf directories of a generated source tree
MaxDepth == 2        \* depth of the directories of a generated source tree

\* --------------------------------------------------------- string helpers
None == 0

Digits == {"0", "1", "2", "3", "4", "5", "6", "7", "8", "9"}

DigitVal(c) ==
  CASE c = "0" -> 0 [] c = "1" -> 1 [] c = "2" -> 2 [] c = "3" -> 3
    [] c = "4" -> 4 [] c = "5" -> 5 [] c = "6" -> 6 [] c = "7" -> 7
    [] c = "8" -> 8 [] c = "9" -> 9

\* str.split(sep, maxsplit); maxsplit = -1 splits at every separator
RECURSIVE Split(_, _, _)
Split(s, sep, maxsplit) ==
  IF maxsplit = 0 \/ ~(\E i \in 1..Len(s) : s[i] = sep)
  THEN <<s>>
  ELSE LET i == CHOOSE k \in 1..Len(s) :
                  s[k] = sep /\ \A j \in 1..(k - 1) : s[j] # sep
       IN  <<SubSeq(s, 1, i - 1)>>
             \o Split(SubSeq(s, i + 1, Len(s)), sep, maxsplit - 1)

\* sep.join(parts)
RECURSIVE Join(_, _)
Join(parts, sep) ==
  IF parts = <<>> THEN <<>>
  ELSE IF Len(parts) = 1 THEN parts[1]
  ELSE parts[1] \o sep \o Join(Tail(parts), sep)

\* str.strip() for the whitespace the model generates (the blank)
RECURSIVE Strip(_)
Strip(s) ==
  IF s = <<>> THEN s
  ELSE IF s[1] = " " THEN Strip(Tail(s))
  ELSE IF s[Len(s)] = " " THEN Strip(SubSeq(s, 1, Len(s) - 1))
  ELSE s

StartsWith(s, c) == Len(s) > 0 /\ s[1] = c
EndsWith(s, c) == Len(s) > 0 /\ s[Len(s)] = c

\* int(s): defined for a non-empty run of decimal digits (the generated
\* alphabet has no sign and no blank inside file names)
IntOk(s) == Len(s) > 0 /\ \A i \in 1..Len(s) : s[i] \in Digits

RECURSIVE IntOf(_)
IntOf(s) ==
  IF s = <<>> THEN 0
  ELSE 10 * IntOf(SubSeq(s, 1, Len(s) - 1)) + DigitVal(s[Len(s)])

\* datetime.datetime(y, m, d) raises ValueError outside these ranges
IsLeap(y) == (y % 4 = 0 /\ y % 100 # 0) \/ y % 400 = 0

DaysInMonth(y, m) ==
  IF m = 2 THEN (IF IsLeap(y) THEN 29 ELSE 28)
  ELSE IF m \in {4, 6, 9, 11} THEN 30 ELSE 31

DateOk(y, m, d) ==
  /\ y >= 1 /\ y <= 9999
  /\ m >= 1 /\ m <= 12
  /\ d >= 1 /\ d <= DaysInMonth(y, m)

\* ----------------------------------------------------------- dictionaries
Put(d, k, v) == [x \in DOMAIN d \cup {k} |-> IF x = k THEN v ELSE d[x]]
Del(d, k) == [x \in DOMAIN d \ {k} |-> d[x]]
\* dict.update(m)
Update(d, m) == [x \in DOMAIN d \cup DOMAIN m |-> IF x \in DOMAIN m THEN m[x] ELSE d[x]]
\* dict.get(k, default)
Get(d, k, default) == IF k \in DOMAIN d THEN d[k] ELSE default
EmptyDict == [x \in {} |-> None]

\* ------------------------------------------------------- document sources
\* A document's text is a sequence of lines: the marker line `---`, a
\* `key: value` line of a metadata block, or a line of body text.
Marker == [k |-> "---", v |-> None]
KV(key, val) == [k |-> key, v |-> val]
TextLine(n) == [k |-> "text", v |-> n]
IsMarker(line) == line.k = "---"

\* the addresses fixed by Site.__init__
SiteAddr == 1
BaseAddr == 2

\* two things copy() is not: the same object again, and a copy that also
\* copies the nested site mapping
AttrDictCopyAlias(h, a) == [heap |-> h, addr |-> a]
AttrDictCopyDeep(h, a) ==
  [heap |-> h \o <<h[h[a]["site"]], [h[a] EXCEPT !["site"] = Len(h) + 1]>>,
   addr |-> Len(h) + 2]
\* class AttrDict: copy() builds a new top-level mapping with the same
\* values (nested mappings are shared by address)
AttrDictCopy(h, a) == [heap |-> Append(h, h[a]), addr |-> Len(h) + 1]

\* Site.__init__: context = AttrDict(), context.site = AttrDict(),
\* context.site.time = now
SiteInitHeap == << ("time" :> 0), ("site" :> SiteAddr) >>

\* yaml.load of the lines of a block: a mapping, the last line of a key
\* winning; None for a block with no line
YamlLoad(lines) ==
  [key \in {lines[i].k : i \in 1..Len(lines)} |->
     LET last == CHOOSE i \in 1..Len(lines) :
                   lines[i].k = key /\ \A j \in (i + 1)..Len(lines) : lines[j].k # key
     IN  lines[last].v]

\* Template.RE_YAML: the block is recognised only when the first line is
\* a marker and a later line is one; the block ends at the first of these
HasBlock(text) ==
  /\ Len(text) >= 2
  /\ IsMarker(text[1])
  /\ \E j \in 2..Len(text) : IsMarker(text[j])

BlockEnd(text) ==
  CHOOSE j \in 2..Len(text) :
    IsMarker(text[j]) /\ \A i \in 2..(j - 1) : ~IsMarker(text[i])

\* Template.read_yaml, given the copied context: the metadata merged into
\* the context and the content left.  A block without a line makes
\* yaml.load return None and context.update(None) raise TypeError.
ReadYaml(text, ctx) ==
  IF ~HasBlock(text)
  THEN [err |-> "", context |-> ctx, content |-> text]
  ELSE LET j == BlockEnd(text)
           lines == SubSeq(text, 2, j - 1)
       IN  IF lines = <<>>
           THEN [err |-> "TypeError", context |-> ctx, content |-> text]
           ELSE [err |-> "",
                 context |-> Update(ctx, YamlLoad(lines)),
                 content |-> SubSeq(text, j + 1, Len(text))]

\* Template.__init__: self.context = context.copy(); self.read_yaml()
TemplateInit(h, file, ctxAddr) ==
  LET c == AttrDictCopy(h, ctxAddr)
      y == ReadYaml(file.text, c.heap[c.addr])
  IN  [err |-> y.err,
       heap |-> [c.heap EXCEPT ![c.addr] = y.context],
       obj |-> [filename |-> file.name, ctx |-> c.addr, content |-> y.content]]

\* Template.transform: Config.transformers is empty, so every extension
\* gets the default `lambda x: x`
Transform(content) == content

\* Layout.__init__: name = the file's stem, content = transform()
LayoutInit(h, file, ctxAddr) ==
  LET t == TemplateInit(h, file, ctxAddr)
  IN  [err |-> t.err,
       heap |-> t.heap,
       obj |-> [name |-> file.name, ctx |-> t.obj.ctx,
                content |-> Transform(t.obj.content)]]

\* Layout.layout (property): context.get('layout')
LayoutParent(h, layout) == Get(h[layout.ctx], "layout", None)

\* os.path.splitext(basename)[0]: cut at the last dot, unless only dots
\* come before it
Stem(name) ==
  LET dots == {i \in 1..Len(name) : name[i] = "."}
      cut == IF dots = {} THEN 0 ELSE CHOOSE i \in dots : \A j \in dots : j <= i
  IN  IF cut = 0 \/ (\A j \in 1..(cut - 1) : name[j] = ".")
      THEN name
      ELSE SubSeq(name, 1, cut - 1)

\* Post.path: os.path.join(year, month, day) of the filename's strings
PostPath(year, month, day) == Join(<<year, month, day>>, <<"/">>)
\* Post.url: '/'.join((path, slug))
PostUrl(year, month, day, slug) == Join(<<PostPath(year, month, day), slug>>, <<"/">>)
\* Post.date: datetime(int(year), int(month), int(day))
PostDate(year, month, day) == <<IntOf(year), IntOf(month), IntOf(day)>>

\* Post.__init__, the category lines: join the singular and the plural
\* key with a comma, drop both keys, split, keep the non-empty pieces and
\* strip each
NormalizeCategories(ctx) ==
  LET cats == Get(ctx, "category", <<>>) \o <<",">> \o Get(ctx, "categories", <<>>)
      pieces == SelectSeq(Split(cats, ",", -1), LAMBDA c : c # <<>>)
  IN  Put(Del(Del(ctx, "category"), "categories"),
          "categories", [i \in 1..Len(pieces) |-> Strip(pieces[i])])

\* Post.__init__: os.path.splitext(basename)[0].split('-', 3)
\* a split at every dash, which would cut a slug that holds one
StemPartsAllDashes(name) == Split(Stem(name), "-", -1)
StemParts(name) == Split(Stem(name), "-", 3)

\* Post.__init__
PostInit(h, file, ctxAddr) ==
  LET t == TemplateInit(h, file, ctxAddr)
      parts == StemParts(file.name)
  IN  IF t.err # "" THEN [err |-> t.err, heap |-> h, obj |-> t.obj]
      ELSE IF Len(parts) # 4 THEN [err |-> "ValueError", heap |-> h, obj |-> t.obj]
      ELSE IF ~(IntOk(parts[1]) /\ IntOk(parts[2]) /\ IntOk(parts[3]))
        THEN [err |-> "ValueError", heap |-> h, obj |-> t.obj]
      ELSE IF ~DateOk(IntOf(parts[1]), IntOf(parts[2]), IntOf(parts[3]))
        THEN [err |-> "ValueError", heap |-> h, obj |-> t.obj]
      ELSE
        LET year == parts[1]
            month == parts[2]
            day == parts[3]
            slug == parts[4]
            c0 == t.heap[t.obj.ctx]
            c1 == Put(c0, "date", PostDate(year, month, day))
            c2 == Put(c1, "url", PostUrl(year, month, day, slug))
            c3 == Put(c2, "path", PostPath(year, month, day))
        IN  [err |-> "",
             heap |-> [t.heap EXCEPT ![t.obj.ctx] = NormalizeCategories(c3)],
             obj |-> [filename |-> file.name, ctx |-> t.obj.ctx,
                      content |-> t.obj.content,
                      year |-> year, month |-> month, day |-> day, slug |-> slug]]

\* --------------------------------------------------------------- rendering
\* The longest output of an acyclic chain: the body and every layout once.
\* An output is the sequence of its layers, innermost first, kept to its
\* last MaxOut layers, which only a chain that applies some layout twice
\* can exceed; `cut` is the parity of the number of layers cut off.
MaxOut == NumLayouts + 2
EmptyOut == [layers |-> <<>>, cut |-> 0]

\* jinja2.Template(template).render(ctx): the engine is opaque, its output
\* is determined by the template and by the `content` it is given; the
\* model writes it as the given content with the template applied on top
RenderTemplate(template, ctx) ==
  LET given == Get(ctx, "content", EmptyOut)
      full == Append(given.layers, template)
  IN  IF Len(full) > MaxOut
      THEN [layers |-> Tail(full), cut |-> 1 - given.cut]
      ELSE [layers |-> full, cut |-> given.cut]

\* a lookup that falls back on some layout when the name is missing
LayoutsGetOrAny(lays, name) ==
  IF name \in DOMAIN lays THEN name
  ELSE IF DOMAIN lays # {} THEN CHOOSE n \in DOMAIN lays : TRUE ELSE None
\* self.layouts.get(name): the Layout stored under the name, or None; a
\* Layout is stored under its own name, so the name stands for the object
LayoutsGet(lays, name) == IF name \in DOMAIN lays THEN name ELSE None

\* Template.render: ctx.layout is AttrDict.__getattr__, that is
\* ctx['layout'], which raises KeyError when no `layout` key exists
Render(h, doc, lays) ==
  LET c == AttrDictCopy(h, doc.ctx)
      ctx0 == c.heap[c.addr]
      ctx == Put(ctx0, "content", RenderTemplate(Transform(doc.content), ctx0))
      h1 == [c.heap EXCEPT ![c.addr] = ctx]
  IN  IF "layout" \notin DOMAIN ctx
      THEN [err |-> "KeyError", heap |-> h1, out |-> EmptyOut]
      ELSE LET layout == LayoutsGet(lays, ctx["layout"])
           IN  IF layout # None
               THEN [err |-> "", heap |-> h1,
                     out |-> RenderTemplate(lays[layout].content, ctx)]
               ELSE [err |-> "", heap |-> h1, out |-> ctx["content"]]

\* a loop that would start at the layout render() has already applied
NextLayoutSame(h, lays, first) == first
\* Template.layout, `if layout: layout = self.layouts.get(layout.layout)`:
\* the layout render() has applied gives way to its parent
NextLayout(h, lays, first) ==
  IF first # None THEN LayoutsGet(lays, LayoutParent(h, lays[first])) ELSE None

\* Template.layout up to its while loop: ctx.content = self.render(), then
\* the layout just applied is looked up again and replaced by its parent
LayoutEnter(h, doc, lays) ==
  LET c == AttrDictCopy(h, doc.ctx)
      r == Render(c.heap, doc, lays)
      ctx == Put(r.heap[c.addr], "content", r.out)
      first == LayoutsGet(lays, ctx["layout"])
  IN  IF r.err # ""
      THEN [err |-> r.err, heap |-> r.heap, ctx |-> c.addr, layout |-> None]
      ELSE [err |-> "",
            heap |-> [r.heap EXCEPT ![c.addr] = ctx],
            ctx |-> c.addr,
            layout |-> NextLayout(r.heap, lays, first)]

\* one turn of the while loop of Template.layout
LayoutTurn(h, ctxAddr, layout, lays) ==
  [heap |-> [h EXCEPT ![ctxAddr] =
               Put(@, "content", RenderTemplate(lays[layout].content, @))],
   layout |-> LayoutsGet(lays, LayoutParent(h, lays[layout]))]

\* ------------------------------------------------------------------ paths
Prefixes(p) == {SubSeq(p, 1, i) : i \in 0..Len(p)}
DirName(p) == SubSeq(p, 1, Len(p) - 1)
BaseName(p) == p[Len(p)]
IndexHtml == <<"i", "n", "d", "e", "x", ".", "h", "t", "m", "l">>

\* Post.write: os.path.join(self.path, self.slug, 'index.html'), as the
\* components below the deploy directory
PostTarget(post) ==
  SelectSeq(<<post.year, post.month, post.day, post.slug, IndexHtml>>,
            LAMBDA c : c # <<>>)

\* Page.write: the source path with its last character cut, relative to
\* the site root
PageTarget(path) ==
  Append(DirName(path), SubSeq(BaseName(path), 1, Len(BaseName(path)) - 1))

\* ------------------------------------------------------------------ state
VARIABLES
  fs,           \* the source tree given to the build (never written)
  pc,           \* the step of the main program that runs next
  err,          \* the exception that ended the build, "" if none
  heap,         \* the AttrDict objects, by address
  layouts,      \* Site.layouts: name -> Layout
  posts,        \* Site.posts, in load order
  nextPost,     \* write_posts: index of the next post to write
  walk,         \* write_site_content: the state of os.walk
  call,         \* the running Template.layout() call (whose document, its
                \* local ctx, the loop's `layout`, where the output goes),
                \* <<>> if none
  deployFiles,  \* files written below the deploy directory: path -> what
  deployDirs,   \* directories made below the deploy directory
  strayDirs     \* directories made at absolute paths outside it

vars == <<fs, pc, err, heap, layouts, posts, nextPost, walk, call,
          deployFiles, deployDirs, strayDirs>>

\* the statements of the main program, Site.read() then Site.generate()
\* then Site.deploy(), in order
Program ==
  <<"read_layouts", "read_posts", "calc_categories",
    "write_posts", "write_site_content", "deploy">>

StepAfter(step) ==
  LET i == CHOOSE k \in 1..Len(Program) : Program[k] = step
  IN  IF i = Len(Program) THEN "done" ELSE Program[i + 1]

\* ---------------------------------------------------------------- Site.read
\* the Layout objects of the files of the layout directory, in listing
\* order; the listing holds no name starting with `__`, which the code
\* would skip, and the first constructor that raises ends the build
RECURSIVE LoadLayouts(_, _, _)
LoadLayouts(h, files, acc) ==
  IF files = <<>> THEN [err |-> "", heap |-> h, objs |-> acc]
  ELSE LET r == LayoutInit(h, files[1], BaseAddr)
       IN  IF r.err # "" THEN [err |-> r.err, heap |-> h, objs |-> acc]
           ELSE LoadLayouts(r.heap, Tail(files), Append(acc, r.obj))

\* dict((l.name, l) for l in self.layouts): the last of a name wins
LayoutDict(objs) ==
  [n \in {objs[i].name : i \in 1..Len(objs)} |->
     objs[CHOOSE i \in 1..Len(objs) :
            objs[i].name = n /\ \A j \in (i + 1)..Len(objs) : objs[j].name # n]]

\* Site.read_layouts
ReadLayouts ==
  /\ pc = "read_layouts"
  /\ LET r == LoadLayouts(heap, fs.layouts, <<>>)
     IN  IF r.err # ""
         THEN /\ pc' = "failed" /\ err' = r.err
              /\ UNCHANGED <<heap, layouts>>
         ELSE /\ pc' = StepAfter("read_layouts")
              /\ heap' = r.heap
              /\ layouts' = LayoutDict(r.objs)
              /\ err' = err
  /\ UNCHANGED <<fs, posts, nextPost, walk, call, deployFiles, deployDirs,
                 strayDirs>>

\* the Post objects of the files of the post directory, in listing order
\* (again no name starts with `__`)
RECURSIVE LoadPosts(_, _, _)
LoadPosts(h, files, acc) ==
  IF files = <<>> THEN [err |-> "", heap |-> h, objs |-> acc]
  ELSE LET r == PostInit(h, files[1], BaseAddr)
       IN  IF r.err # "" THEN [err |-> r.err, heap |-> h, objs |-> acc]
           ELSE LoadPosts(r.heap, Tail(files), Append(acc, r.obj))

\* Post.__cmp__: cmp(self.date, other.date), on (year, month, day)
DateLess(a, b) ==
  \/ a[1] < b[1]
  \/ a[1] = b[1] /\ a[2] < b[2]
  \/ a[1] = b[1] /\ a[2] = b[2] /\ a[3] < b[3]

PostDateOf(p) == PostDate(p.year, p.month, p.day)

\* sorted(self.posts): a stable sort by date, as indices into self.posts
RECURSIVE SortedPosts(_, _)
SortedPosts(ps, n) ==
  IF n = 0 THEN <<>>
  ELSE LET before == SortedPosts(ps, n - 1)
           k == Cardinality({i \in 1..Len(before) :
                               ~DateLess(PostDateOf(ps[n]), PostDateOf(ps[before[i]]))})
       IN  SubSeq(before, 1, k) \o <<n>> \o SubSeq(before, k + 1, Len(before))

\* self.context.site: the mapping the base context's `site` key refers to
SiteOf(h, ctxAddr) == h[ctxAddr]["site"]

\* Site.read_posts
ReadPosts ==
  /\ pc = "read_posts"
  /\ LET r == LoadPosts(heap, fs.posts, <<>>)
     IN  IF r.err # ""
         THEN /\ pc' = "failed" /\ err' = r.err
              /\ UNCHANGED <<heap, posts>>
         ELSE /\ pc' = StepAfter("read_posts")
              /\ posts' = r.objs
              /\ heap' = [r.heap EXCEPT ![SiteOf(r.heap, BaseAddr)] =
                            Put(@, "posts", SortedPosts(r.objs, Len(r.objs)))]
              /\ err' = err
  /\ UNCHANGED <<fs, layouts, nextPost, walk, call, deployFiles, deployDirs,
                 strayDirs>>

\* Post.categories (property): context.get('categories')
PostCategories(h, post) == h[post.ctx]["categories"]

\* Site.calc_categories: for post in posts: for cat in post.categories:
\* categories.setdefault(cat, []).append(post)
RECURSIVE AddCats(_, _, _)
AddCats(acc, cats, i) ==
  IF cats = <<>> THEN acc
  ELSE AddCats(Put(acc, cats[1], Append(Get(acc, cats[1], <<>>), i)), Tail(cats), i)

RECURSIVE CollectCategories(_, _, _, _)
CollectCategories(h, ps, i, acc) ==
  IF i > Len(ps) THEN acc
  ELSE CollectCategories(h, ps, i + 1, AddCats(acc, PostCategories(h, ps[i]), i))

CalcCategories ==
  /\ pc = "calc_categories"
  /\ pc' = StepAfter("calc_categories")
  /\ heap' = [heap EXCEPT ![SiteOf(heap, BaseAddr)] =
                Put(@, "categories", CollectCategories(heap, posts, 1, EmptyDict))]
  /\ UNCHANGED <<fs, err, layouts, posts, nextPost, walk, call, deployFiles,
                 deployDirs, strayDirs>>

\* ------------------------------------------------------------ Site.generate
Fail(e) ==
  /\ pc' = "failed"
  /\ err' = e
  /\ UNCHANGED <<fs, heap, layouts, posts, nextPost, walk, call,
                 deployFiles, deployDirs, strayDirs>>

\* Site.write_posts, one post: p.write() evaluates self.layout() first
WritePost ==
  /\ pc = "write_posts"
  /\ call = <<>>
  /\ nextPost <= Len(posts)
  /\ LET e == LayoutEnter(heap, posts[nextPost], layouts)
     IN  IF e.err # "" THEN Fail(e.err)
         ELSE /\ heap' = e.heap
              /\ call' = <<[kind |-> "post", doc |-> posts[nextPost].filename,
                            ctx |-> e.ctx, layout |-> e.layout,
                            target |-> PostTarget(posts[nextPost])]>>
              /\ UNCHANGED <<fs, pc, err, layouts, posts, nextPost, walk,
                             deployFiles, deployDirs, strayDirs>>

\* Site.write_posts returns when the loop over the posts is over
WritePostsEnd ==
  /\ pc = "write_posts"
  /\ call = <<>>
  /\ nextPost > Len(posts)
  /\ pc' = StepAfter("write_posts")
  /\ UNCHANGED <<fs, err, heap, layouts, posts, nextPost, walk, call,
                 deployFiles, deployDirs, strayDirs>>

\* Template.layout: `while layout != None`, one turn
LayoutLoop ==
  /\ call # <<>>
  /\ call[1].layout # None
  /\ LET t == LayoutTurn(heap, call[1].ctx, call[1].layout, layouts)
     IN  /\ heap' = t.heap
         /\ call' = <<[call[1] EXCEPT !.layout = t.layout]>>
  /\ UNCHANGED <<fs, pc, err, layouts, posts, nextPost, walk,
                 deployFiles, deployDirs, strayDirs>>

\* Template.layout returns ctx.content and Template.write stores it,
\* making the directories above it
LayoutReturn ==
  /\ call # <<>>
  /\ call[1].layout = None
  /\ deployDirs' = deployDirs \cup Prefixes(DirName(call[1].target))
  /\ deployFiles' = Put(deployFiles, call[1].target,
                        [kind |-> call[1].kind, src |-> call[1].doc,
                         data |-> heap[call[1].ctx]["content"]])
  /\ call' = <<>>
  /\ IF call[1].kind = "post"
     THEN nextPost' = nextPost + 1 /\ walk' = walk
     ELSE nextPost' = nextPost /\ walk' = [walk EXCEPT !.files = Tail(@)]
  /\ UNCHANGED <<fs, pc, err, heap, layouts, posts, strayDirs>>

\* a set as a sequence, in the order the file system lists it
RECURSIVE Listing(_)
Listing(S) ==
  IF S = {} THEN <<>>
  ELSE LET x == CHOOSE y \in S : TRUE IN <<x>> \o Listing(S \ {x})

ChildDirs(tree, root) ==
  {p \in tree.dirs : Len(p) = Len(root) + 1 /\ DirName(p) = root}
ChildFiles(tree, root) ==
  {p \in DOMAIN tree.files : Len(p) = Len(root) + 1 /\ DirName(p) = root}

IsPrivate(name) == StartsWith(name, "_")
IsPage(name) == EndsWith(name, "_")

\* Site.write_site_content, the top of one turn of the os.walk loop:
\* every child directory that is not private is made below the deploy
\* directory, and the private ones are taken out of the walk.  `base` is
\* root with BASE_DIR cut out: below the top it starts with the separator
\* unless BASE_DIR was given with a trailing one, and os.path.join then
\* yields an absolute path, where makedirs may or may not be permitted.
WalkDir ==
  /\ pc = "write_site_content"
  /\ call = <<>>
  /\ walk.files = <<>>
  /\ walk.stack # <<>>
  /\ LET root == Head(walk.stack)
         open == {d \in ChildDirs(fs.tree, root) : ~IsPrivate(BaseName(d))}
         inside == root = <<>> \/ fs.baseSlash
         next == [stack |-> Listing(open) \o Tail(walk.stack),
                  files |-> Listing(ChildFiles(fs.tree, root))]
     IN  \/ /\ inside
            /\ deployDirs' = deployDirs \cup UNION {Prefixes(d) : d \in open}
            /\ walk' = next
            /\ UNCHANGED <<fs, pc, err, heap, layouts, posts, nextPost, call,
                           deployFiles, strayDirs>>
         \/ /\ ~inside
            /\ strayDirs' = strayDirs \cup UNION {Prefixes(d) \ {<<>>} : d \in open}
            /\ walk' = next
            /\ UNCHANGED <<fs, pc, err, heap, layouts, posts, nextPost, call,
                           deployFiles, deployDirs>>
         \/ /\ ~inside
            /\ open \ strayDirs # {}
            /\ Fail("OSError")

\* Site.write_site_content, one file of the current directory: a page is
\* constructed and written, any other file is copied
WalkFile ==
  /\ pc = "write_site_content"
  /\ call = <<>>
  /\ walk.files # <<>>
  /\ LET path == Head(walk.files)
     IN  IF IsPage(BaseName(path))
         THEN LET t == TemplateInit(heap, [name |-> path, text |-> fs.tree.files[path]],
                                    BaseAddr)
                  e == LayoutEnter(t.heap, t.obj, layouts)
              IN  IF t.err # "" THEN Fail(t.err)
                  ELSE IF e.err # "" THEN Fail(e.err)
                  ELSE /\ heap' = e.heap
                       /\ call' = <<[kind |-> "page", doc |-> path, ctx |-> e.ctx,
                                     layout |-> e.layout,
                                     target |-> PageTarget(path)]>>
                       /\ UNCHANGED <<fs, pc, err, layouts, posts, nextPost, walk,
                                      deployFiles, deployDirs, strayDirs>>
         ELSE /\ deployDirs' = deployDirs \cup Prefixes(DirName(path))
              /\ deployFiles' = Put(deployFiles, path,
                                    [kind |-> "copy", src |-> path,
                                     data |-> fs.tree.files[path]])
              /\ walk' = [walk EXCEPT !.files = Tail(@)]
              /\ UNCHANGED <<fs, pc, err, heap, layouts, posts, nextPost, call,
                             strayDirs>>

\* os.walk is exhausted: Site.write_site_content returns
WalkEnd ==
  /\ pc = "write_site_content"
  /\ call = <<>>
  /\ walk.files = <<>>
  /\ walk.stack = <<>>
  /\ pc' = StepAfter("write_site_content")
  /\ UNCHANGED <<fs, err, heap, layouts, posts, nextPost, walk, call,
                 deployFiles, deployDirs, strayDirs>>

\* Site.deploy: pass
Deploy ==
  /\ pc = "deploy"
  /\ pc' = StepAfter("deploy")
  /\ UNCHANGED <<fs, err, heap, layouts, posts, nextPost, walk, call,
                 deployFiles, deployDirs, strayDirs>>

\* ----------------------------------------------------------- source trees
\* The builds explored.  Each family varies one part of the source tree
\* over a bounded set and keeps the rest small.
BodyOnly(n) == <<TextLine(n)>>
WithMeta(kvs, n) == <<Marker>> \o kvs \o <<Marker, TextLine(n)>>

StringsUpTo(alphabet, n) == UNION {[1..k -> alphabet] : k \in 0..n}

RECURSIVE SubsetsUpTo(_, _)
SubsetsUpTo(E, k) ==
  IF k = 0 THEN {{}}
  ELSE LET S == SubsetsUpTo(E, k - 1) IN S \cup {x \cup {e} : x \in S, e \in E}

\* layout files, one per name of the set, in listing order: a layout with
\* a parent declares it in a metadata block, one without has no block
LayoutFile(n, parent) ==
  [name |-> n,
   text |-> IF parent = None THEN BodyOnly(n)
            ELSE WithMeta(<<KV("layout", parent)>>, n)]

RECURSIVE LayoutFiles(_, _)
LayoutFiles(parentOf, n) ==
  IF n = 0 THEN <<>>
  ELSE LayoutFiles(parentOf, n - 1)
         \o (IF n \in DOMAIN parentOf THEN <<LayoutFile(n, parentOf[n])>> ELSE <<>>)

LayoutSets ==
  UNION {[dom -> 0..NumLayouts] : dom \in SUBSET (1..NumLayouts)}

OneLayout == <<LayoutFile(1, None)>>

PageName == <<"p", "_">>
PlainName == <<"f">>
HiddenName == <<"_", "f">>

PageTexts ==
  {BodyOnly(0), <<TextLine(0), Marker, KV("layout", 1), Marker>>,
   <<Marker, Marker, TextLine(0)>>, WithMeta(<<KV("title", 1)>>, 0)}
    \cup {WithMeta(<<KV("layout", v)>>, 0) : v \in 0..NumLayouts}

NoTree == [dirs |-> {}, files |-> EmptyDict]
PageTree(text) == [dirs |-> {}, files |-> (<<PageName>> :> text)]

\* post stems: up to MaxParts pieces joined by dashes
PartChoices == {<<>>, <<"a">>, <<"0", "2">>, <<"2", "0", "2", "4">>}
Stems == {Join(ps, <<"-">>) : ps \in UNION {[1..k -> PartChoices] : k \in 1..MaxParts}}
DotMd == <<".", "m", "d">>
PostText == WithMeta(<<KV("layout", 1)>>, 0)

CatAlphabet == {"a", "b", " ", ","}
CategoryKVs ==
  {<<>>} \cup {<<KV("category", c)>> : c \in StringsUpTo(CatAlphabet, MaxCategoryLen)}
CategoriesKVs ==
  {<<>>} \cup {<<KV("categories", c)>> : c \in StringsUpTo(CatAlphabet, MaxCatLen)}
GoodStem == <<"2", "0", "2", "4", "-", "0", "2", "-", "2", "9", "-", "a">>
OldStem == <<"1", "-", "1", "-", "1", "-", "b">>
TieStem == <<"2", "0", "2", "4", "-", "0", "2", "-", "2", "9", "-", "c">>

\* post files of the site-level builds: two dates, a few taggings
SitePostFiles ==
  {[name |-> stem \o DotMd, text |-> WithMeta(<<KV("layout", 1)>> \o c \o cs, 0)] :
     stem \in {GoodStem, OldStem, TieStem},
     c \in {<<>>, <<KV("category", <<"a">>)>>},
     cs \in {<<>>, <<KV("categories", <<"a", ",", "b">>)>>,
             <<KV("categories", <<"b">>)>>}}

\* source trees of the walk: directories named d or _d, files named f,
\* _f or p_ (a page), down to MaxDepth; what lies below a private
\* directory is one plain file
OpenDir == <<"d">>
PrivateDir == <<"_", "d">>
OpenDirPaths == UNION {[1..k -> {OpenDir}] : k \in 0..MaxDepth}
PrivateDirPaths == {Append(d, PrivateDir) : d \in {o \in OpenDirPaths : Len(o) < MaxDepth}}
DirPaths == (OpenDirPaths \ {<<>>}) \cup PrivateDirPaths
FilePaths ==
  {Append(d, f) : d \in OpenDirPaths, f \in {PlainName, HiddenName, PageName}}
    \cup {Append(d, PlainName) : d \in PrivateDirPaths}
FileText(path) ==
  IF IsPage(BaseName(path)) THEN WithMeta(<<KV("layout", 1)>>, 0) ELSE BodyOnly(0)
TreeOf(entries) ==
  [dirs |-> (entries \cap DirPaths)
              \cup UNION {Prefixes(DirName(e)) \ {<<>>} : e \in entries},
   files |-> [p \in entries \cap FilePaths |-> FileText(p)]]
EntrySets == SubsetsUpTo(DirPaths \cup FilePaths, MaxEntries)

\* the state after Site.__init__, for a given source tree
Start(tree) ==
  /\ fs = tree
  /\ pc = Program[1]
  /\ err = ""
  /\ heap = SiteInitHeap
  /\ layouts = EmptyDict
  /\ posts = <<>>
  /\ nextPost = 1
  /\ walk = [stack |-> << <<>> >>, files |-> <<>>]
  /\ call = <<>>
  /\ deployFiles = EmptyDict
  /\ deployDirs = {}
  /\ strayDirs = {}

\* the layout chain varies
InitChains ==
  \E parentOf \in LayoutSets, text \in PageTexts :
    Start([layouts |-> LayoutFiles(parentOf, NumLayouts), posts |-> <<>>,
           tree |-> PageTree(text), baseSlash |-> FALSE])

\* the post's file name varies
InitNames ==
  \E stem \in Stems :
    Start([layouts |-> OneLayout,
           posts |-> <<[name |-> stem \o DotMd, text |-> PostText]>>,
           tree |-> NoTree, baseSlash |-> FALSE])

\* the post's category keys vary
InitCategories ==
  \E c \in CategoryKVs, cs \in CategoriesKVs :
    Start([layouts |-> OneLayout,
           posts |-> <<[name |-> GoodStem \o DotMd,
                        text |-> WithMeta(<<KV("layout", 1)>> \o c \o cs, 0)]>>,
           tree |-> NoTree, baseSlash |-> FALSE])

\* the set of posts varies
InitPosts ==
  \E k \in 0..MaxPosts : \E ps \in [1..k -> SitePostFiles] :
    /\ \A i, j \in 1..k : i # j => ps[i].name # ps[j].name
    /\ Start([layouts |-> OneLayout, posts |-> ps,
              tree |-> PageTree(PostText), baseSlash |-> FALSE])

\* the tree of pages and other files varies
InitTrees ==
  \E x \in EntrySets, slash \in BOOLEAN :
    Start([layouts |-> OneLayout, posts |-> <<>>, tree |-> TreeOf(x),
           baseSlash |-> slash])

Init == InitChains \/ InitNames \/ InitCategories \/ InitPosts \/ InitTrees

Next ==
  \/ ReadLayouts
  \/ ReadPosts
  \/ CalcCategories
  \/ WritePost
  \/ WritePostsEnd
  \/ LayoutLoop
  \/ LayoutReturn
  \/ WalkDir
  \/ WalkFile
  \/ WalkEnd
  \/ Deploy

Spec == Init /\ [][Next]_vars

\* a call of Template.layout that is running keeps running: the next turn
\* of its loop, or its return, is taken
FairSpec == Spec /\ WF_vars(LayoutLoop) /\ WF_vars(LayoutReturn)

\* ================================================================ claims
\* What the source tree says, read off the files themselves.
Absent == None - 1

\* the layout name a document's metadata block declares, Absent if the
\* document has no block or the block has no `layout` line
Declared(text) ==
  LET ends == {j \in 2..Len(text) : text[j].k = "---"}
  IN  IF Len(text) < 2 \/ text[1].k # "---" \/ ends = {} THEN Absent
      ELSE LET close == CHOOSE j \in ends : \A i \in ends : j <= i
               hits == {i \in 2..(close - 1) : text[i].k = "layout"}
           IN  IF hits = {} THEN Absent
               ELSE text[CHOOSE i \in hits : \A j \in hits : j <= i].v

\* the body a document's text leaves once its block is taken off
BodyOf(text) ==
  LET ends == {j \in 2..Len(text) : text[j].k = "---"}
  IN  IF Len(text) < 2 \/ text[1].k # "---" \/ ends = {} THEN text
      ELSE [i \in 1..(Len(text) - (CHOOSE j \in ends : \A m \in ends : j <= m)) |->
              text[i + (CHOOSE j \in ends : \A m \in ends : j <= m)]]

LayoutNames == {fs.layouts[i].name : i \in 1..Len(fs.layouts)}
LayoutText(n) == (CHOOSE f \in {fs.layouts[i] : i \in 1..Len(fs.layouts)} : f.name = n).text

\* the layouts a document declaring `first` is to be wrapped in, in
\* order; `fuel` cuts a cycle off
RECURSIVE ChainFrom(_, _)
ChainFrom(name, fuel) ==
  IF name \notin LayoutNames \/ fuel = 0 THEN <<>>
  ELSE <<name>> \o ChainFrom(Declared(LayoutText(name)), fuel - 1)

Acyclic(first) == Len(ChainFrom(first, NumLayouts + 1)) <= NumLayouts

\* the output of wrapping a body in the layouts of a chain, one after the
\* other
RECURSIVE Wrapped(_, _)
Wrapped(out, chain) ==
  IF chain = <<>> THEN out
  ELSE Wrapped(Append(out, BodyOf(LayoutText(chain[1]))), Tail(chain))

Whole(layers) == [layers |-> layers, cut |-> 0]

ExpectedOutput(text) ==
  Wrapped(<<BodyOf(text)>>, ChainFrom(Declared(text), NumLayouts + 1))

SourceText(kind, src) ==
  IF kind = "post"
  THEN (CHOOSE f \in {fs.posts[i] : i \in 1..Len(fs.posts)} : f.name = src).text
  ELSE fs.tree.files[src]

IsPrefix(a, b) == Len(a) <= Len(b) /\ \A i \in 1..Len(a) : a[i] = b[i]

\* C1: a document that declares a layout and whose chain has no cycle is
\* wrapped in the layouts of its chain in order (its own layout, then that
\* layout's parent, and so on), each once, each step taking the output of
\* the step before; the loop stops exactly when the chain ends, and what
\* is written is the output of the last step.
C1_ChainAppliedInOrder ==
  /\ call # <<>> =>
       LET text == SourceText(call[1].kind, call[1].doc)
           chain == ChainFrom(Declared(text), NumLayouts + 1)
           out == heap[call[1].ctx]["content"].layers
       IN  (Declared(text) # Absent /\ Acyclic(Declared(text))) =>
             /\ heap[call[1].ctx]["content"].cut = 0
             /\ IsPrefix(out, ExpectedOutput(text))
             /\ call[1].layout = None <=> out = ExpectedOutput(text)
             /\ call[1].layout # None => call[1].layout = chain[Len(out)]
  /\ \A p \in DOMAIN deployFiles :
       LET w == deployFiles[p]
       IN  (w.kind # "copy" /\ Declared(SourceText(w.kind, w.src)) # Absent
              /\ Acyclic(Declared(SourceText(w.kind, w.src)))) =>
             w.data = Whole(ExpectedOutput(SourceText(w.kind, w.src)))

\* a page wrapped in a chain of all NumLayouts layouts has been written
C1_Witness ==
  \E p \in DOMAIN deployFiles :
    /\ deployFiles[p].kind = "page"
    /\ Len(deployFiles[p].data.layers) = NumLayouts + 1
    /\ Acyclic(Declared(SourceText("page", deployFiles[p].src)))

\* C2: every call of Template.layout comes to an end, whatever the layout
\* mapping: a call that has entered its loop leaves it.
C2_LayoutCallEnds == (call # <<>>) ~> (call = <<>>)

AllDocumentTexts ==
  {fs.posts[i].text : i \in 1..Len(fs.posts)}
    \cup {fs.tree.files[p] : p \in {q \in DOMAIN fs.tree.files : IsPage(BaseName(q))}}

\* C3: a document that declares a layout the mapping does not have is
\* rendered to its own content alone, by render() (the content the call
\* starts from) and by the whole call, and no exception is raised; and a
\* chain ends, silently, at a layout whose declared parent is missing.
C3_MissingLayoutEndsChain ==
  /\ call # <<>> =>
       LET text == SourceText(call[1].kind, call[1].doc)
       IN  (Declared(text) # Absent /\ Declared(text) \notin LayoutNames) =>
             /\ heap[call[1].ctx]["content"] = Whole(<<BodyOf(text)>>)
             /\ call[1].layout = None
  /\ \A p \in DOMAIN deployFiles :
       LET w == deployFiles[p]
       IN  w.kind # "copy" =>
             LET text == SourceText(w.kind, w.src)
             IN  /\ (Declared(text) # Absent /\ Declared(text) \notin LayoutNames) =>
                      w.data = Whole(<<BodyOf(text)>>)
                 /\ Len(w.data.layers) > 1 =>
                      \E n \in LayoutNames :
                        /\ w.data.layers[Len(w.data.layers)] = BodyOf(LayoutText(n))
                        /\ Declared(LayoutText(n)) \notin LayoutNames
  /\ (\A text \in AllDocumentTexts : Declared(text) # Absent) => err # "KeyError"

\* a page naming a layout that no file defines has been written
C3_Witness ==
  \E p \in DOMAIN deployFiles :
    /\ deployFiles[p].kind = "page"
    /\ Declared(SourceText("page", deployFiles[p].src)) \notin LayoutNames \cup {Absent, None}

\* C4: a document without a metadata block is parsed to no metadata and
\* its whole text as body, and it renders, without failing, to that text.
C4_NoBlockRendersBody ==
  /\ (\A text \in AllDocumentTexts : BodyOf(text) = text) => err # "KeyError"
  /\ \A p \in DOMAIN deployFiles :
       LET w == deployFiles[p]
       IN  (w.kind # "copy" /\ BodyOf(SourceText(w.kind, w.src)) = SourceText(w.kind, w.src))
             => w.data = Whole(<<SourceText(w.kind, w.src)>>)

\* ---- post file names, read off the name itself
PostStemOf(i) == SubSeq(fs.posts[i].name, 1, Len(fs.posts[i].name) - Len(DotMd))
DashesOf(s) == {i \in 1..Len(s) : s[i] = "-"}
\* the position of the n-th dash of s
NthDash(s, n) == CHOOSE i \in DashesOf(s) : Cardinality({j \in DashesOf(s) : j <= i}) = n
HasFourParts(s) == Cardinality(DashesOf(s)) >= 3
YearOf(s) == SubSeq(s, 1, NthDash(s, 1) - 1)
MonthOf(s) == SubSeq(s, NthDash(s, 1) + 1, NthDash(s, 2) - 1)
DayOf(s) == SubSeq(s, NthDash(s, 2) + 1, NthDash(s, 3) - 1)
SlugOf(s) == SubSeq(s, NthDash(s, 3) + 1, Len(s))
Numeric(x) == x # <<>> /\ \A i \in 1..Len(x) : x[i] \in Digits

RECURSIVE DecimalFrom(_, _)
DecimalFrom(x, i) ==
  IF i > Len(x) THEN 0
  ELSE DigitVal(x[i]) * 10 ^ (Len(x) - i) + DecimalFrom(x, i + 1)
Decimal(x) == DecimalFrom(x, 1)

MonthDays == <<31, 28, 31, 30, 31, 30, 31, 31, 30, 31, 30, 31>>
CalendarDate(y, m, d) ==
  /\ y \in 1..9999
  /\ m \in 1..12
  /\ d >= 1
  /\ d <= MonthDays[m]
            + (IF m = 2 /\ ((y % 4 = 0 /\ y % 100 # 0) \/ y % 400 = 0) THEN 1 ELSE 0)

\* the stem is year-month-day-slug: four parts, the first three numbers
\* that make a calendar date
IsDatedStem(s) ==
  /\ HasFourParts(s)
  /\ Numeric(YearOf(s)) /\ Numeric(MonthOf(s)) /\ Numeric(DayOf(s))
  /\ CalendarDate(Decimal(YearOf(s)), Decimal(MonthOf(s)), Decimal(DayOf(s)))

\* the stem has too few parts, or a date part that is no number
IsMalformedStem(s) ==
  \/ ~HasFourParts(s)
  \/ ~(Numeric(YearOf(s)) /\ Numeric(MonthOf(s)) /\ Numeric(DayOf(s)))

PostsRead == pc \notin {"read_layouts", "read_posts", "failed"}

\* C5: a post whose stem is year-month-day-slug is constructed with date
\* (year, month, day) as numbers, path year/month/day and url path/slug,
\* all from the pieces of the name; a stem with fewer than four parts or a
\* date part that is no number fails construction: no Post comes of it.
C5_PostNameDecides ==
  /\ \A i \in 1..Len(posts) :
       LET s == PostStemOf(i)
           c == heap[posts[i].ctx]
       IN  /\ IsDatedStem(s)
           /\ c["date"] = <<Decimal(YearOf(s)), Decimal(MonthOf(s)), Decimal(DayOf(s))>>
           /\ c["path"] = YearOf(s) \o <<"/">> \o MonthOf(s) \o <<"/">> \o DayOf(s)
           /\ c["url"] = c["path"] \o <<"/">> \o SlugOf(s)
  /\ (\E i \in 1..Len(fs.posts) : IsMalformedStem(PostStemOf(i))) =>
       /\ posts = <<>>
       /\ ~PostsRead
       /\ pc = "failed" => err = "ValueError"
  /\ (\A i \in 1..Len(fs.posts) : IsDatedStem(PostStemOf(i))) =>
       /\ err # "ValueError"
       /\ PostsRead => Len(posts) = Len(fs.posts)

\* a post whose slug holds a dash has been constructed
C5_Witness ==
  /\ Len(posts) = 1
  /\ \E i \in 1..Len(posts[1].slug) : posts[1].slug[i] = "-"
  /\ "url" \in DOMAIN heap[posts[1].ctx]

\* ---- categories, read off the post's metadata
MetaOf(text, key) ==
  LET hits == {i \in 2..Len(text) : text[i].k = key}
  IN  IF hits = {} THEN <<>> ELSE text[CHOOSE i \in hits : \A j \in hits : j <= i].v

\* the tokens of a comma-separated string: its pieces, stripped, without
\* the empty ones
Tokens(str) ==
  LET pieces == Split(str, ",", -1)
  IN  SelectSeq([i \in 1..Len(pieces) |-> Strip(pieces[i])], LAMBDA t : t # <<>>)

Renormalized(cats) ==
  NormalizeCategories(("categories" :> Join(cats, <<",">>)))["categories"]

\* C6: the category list of a post has no empty string, holds the tokens
\* of `category` and then those of `categories` in order, and does not
\* change when it is comma-joined and normalised again.
C6_CategoriesNormalized ==
  \A i \in 1..Len(posts) :
    LET cats == heap[posts[i].ctx]["categories"]
    IN  /\ \A j \in 1..Len(cats) : cats[j] # <<>>
        /\ cats = Tokens(MetaOf(fs.posts[i].text, "category"))
                    \o Tokens(MetaOf(fs.posts[i].text, "categories"))
        /\ Renormalized(cats) = cats

\* ---- category aggregation
Mentions(h, post, cat) ==
  \E j \in 1..Len(PostCategories(h, post)) : PostCategories(h, post)[j] = cat

AllCategories(h, ps) ==
  UNION {{PostCategories(h, ps[i])[j] : j \in 1..Len(PostCategories(h, ps[i]))} :
           i \in 1..Len(ps)}

IndexSeq(n) == [i \in 1..n |-> i]

\* C7: site.categories[c] is the posts whose category list holds c, in
\* load order, each once; its keys are the categories some post names.
C7_CategoryIndex ==
  "categories" \in DOMAIN heap[SiteAddr] =>
    LET agg == heap[SiteAddr]["categories"]
    IN  /\ DOMAIN agg = AllCategories(heap, posts)
        /\ \A c \in DOMAIN agg :
             agg[c] = SelectSeq(IndexSeq(Len(posts)),
                                LAMBDA i : Mentions(heap, posts[i], c))

\* ---- the order of the build
\* the site mapping a context shows holds the posts sorted by date (ties
\* in load order) and every post under each of its categories
ShowsWholeSite(ctxAddr) ==
  LET ctx == heap[ctxAddr]
  IN  /\ "site" \in DOMAIN ctx
      /\ "posts" \in DOMAIN heap[ctx["site"]]
      /\ "categories" \in DOMAIN heap[ctx["site"]]
      /\ LET sorted == heap[ctx["site"]]["posts"]
             agg == heap[ctx["site"]]["categories"]
         IN  /\ Len(sorted) = Len(fs.posts)
             /\ {sorted[i] : i \in 1..Len(sorted)} = 1..Len(fs.posts)
             /\ \A i, j \in 1..Len(sorted) :
                  i < j => \/ DateLess(PostDateOf(posts[sorted[i]]), PostDateOf(posts[sorted[j]]))
                           \/ /\ PostDateOf(posts[sorted[i]]) = PostDateOf(posts[sorted[j]])
                              /\ sorted[i] < sorted[j]
             /\ DOMAIN agg = AllCategories(heap, posts)
             /\ \A i \in 1..Len(posts) : \A c \in DOMAIN agg :
                  Mentions(heap, posts[i], c) => \E j \in 1..Len(agg[c]) : agg[c][j] = i

\* C8: layouts are all loaded before any post; categories are aggregated
\* after every post is loaded and before anything is rendered or written;
\* and while a post or page is being rendered, the site.posts and
\* site.categories its own context leads to are the final ones.
C8_SiteCompleteBeforeRender ==
  /\ Len(posts) > 0 => DOMAIN layouts = LayoutNames
  /\ "categories" \in DOMAIN heap[SiteAddr] => Len(posts) = Len(fs.posts)
  /\ (call # <<>> \/ DOMAIN deployFiles # {} \/ deployDirs # {} \/ nextPost > 1) =>
       "categories" \in DOMAIN heap[SiteAddr]
  /\ call # <<>> => ShowsWholeSite(call[1].ctx)
  /\ pc \in {"write_posts", "write_site_content"} =>
       \A i \in 1..Len(posts) : ShowsWholeSite(posts[i].ctx)

\* a post of a site with MaxPosts tagged posts is being rendered
C8_Witness ==
  /\ call # <<>>
  /\ call[1].kind = "post"
  /\ Len(posts) = MaxPosts
  /\ DOMAIN heap[SiteAddr]["categories"] # {}

\* C9: the keys of the Site's base context and the values bound to them
\* never change, whatever is done to its copies: constructing a Layout, a
\* Post (merge, date/url/path/categories, deletion of the category keys)
\* or a Page and rendering it (`content` set on a further copy) leaves the
\* base context, and the document's own context, as they were.
C9_CopiesAreIsolated ==
  /\ DOMAIN heap[BaseAddr] = {"site"}
  /\ heap[BaseAddr]["site"] = SiteAddr
  /\ \A i \in 1..Len(posts) : "content" \notin DOMAIN heap[posts[i].ctx]
  /\ \A n \in DOMAIN layouts :
       DOMAIN heap[layouts[n].ctx] \subseteq {"site", "layout"}

\* a build with a tagged post and a page has run to its end
C9_Witness ==
  /\ pc = "done"
  /\ Len(posts) > 0
  /\ heap[posts[1].ctx]["categories"] # <<>>
  /\ \E p \in DOMAIN deployFiles : deployFiles[p].kind = "page"

\* ---- the walk
HasPrivatePart(path) == \E i \in 1..Len(path) : StartsWith(path[i], "_")

\* C10: nothing whose name starts with `_`, directory or file, at any
\* depth, is mirrored or copied below the deploy directory; of the other
\* files, a page is rendered to its path less the last character and the
\* rest are copied as they are to the same path.
C10_PrivateStaysOut ==
  /\ \A d \in deployDirs : ~HasPrivatePart(d)
  /\ \A p \in DOMAIN deployFiles :
       deployFiles[p].kind = "copy" =>
         /\ ~HasPrivatePart(p)
         /\ deployFiles[p].src = p
         /\ deployFiles[p].data = fs.tree.files[p]
  /\ pc = "done" =>
       \A p \in DOMAIN fs.tree.files :
         ~HasPrivatePart(p) =>
           IF IsPage(BaseName(p))
           THEN /\ PageTarget(p) \in DOMAIN deployFiles
                /\ deployFiles[PageTarget(p)].kind = "page"
                /\ deployFiles[PageTarget(p)].src = p
           ELSE /\ p \in DOMAIN deployFiles
                /\ deployFiles[p].kind = "copy"

====
